---- MODULE Spec2Model ----
(***************************************************************************)
(* A model of xano_mcp_sdk.py: the request dispatcher make_api_request,    *)
(* the identifier normaliser format_id and the catalog of xano_* tools.    *)
(* Strings are TLA+ strings (TLC evaluates Len, SubSeq and \o on them).    *)
(***************************************************************************)
EXTENDS Integers, Sequences, FiniteSets, TLC

VARIABLES
    token,   \* the credential get_token() finds, or NoToken
    delete_json, \* whether the transport's delete() takes a json keyword
    remote,  \* the schema array the service holds for the table
    pc,      \* per task: "idle", "await", "done", "raised", "exited"
    call,    \* per task: the invocation in progress, [op, a]
    sent,    \* per task: the requests handed to the transport by this invocation
    got,     \* per task: the completed calls of make_api_request (outcome, result)
    ret      \* per task: the value returned, or the exception raised

vars == <<token, delete_json, remote, pc, call, sent, got, ret>>

----------------------------------------------------------------------------
(* Python values, tagged by type.                                          *)

None == [t |-> "none"]
PyInt(n) == [t |-> "int", n |-> n]
PyBool(b) == [t |-> "bool", b |-> b]
Str(s) == [t |-> "str", s |-> s]
List(l) == [t |-> "list", l |-> l]
Dict(d) == [t |-> "dict", d |-> d]
Bytes(name, content) == [t |-> "file", name |-> name, content |-> content]
Exc(kind, msg) == [t |-> "exc", kind |-> kind, msg |-> msg]

EmptyDict == Dict([k \in {} |-> None])

\* A keyword argument the code leaves out of a transport call.
Absent == [t |-> "absent"]

\* bool(v): Python truthiness, as used by "if data:", "if tag:", "if sort:".
Truthy(v) ==
    CASE v.t = "none" -> FALSE
      [] v.t = "bool" -> v.b
      [] v.t = "int" -> v.n # 0
      [] v.t = "str" -> v.s # ""
      [] v.t = "list" -> Len(v.l) > 0
      [] v.t = "dict" -> DOMAIN v.d # {}
      [] OTHER -> TRUE

\* str(v) for the values that are interpolated into URLs and messages.
PyStr(v) ==
    CASE v.t = "none" -> "None"
      [] v.t = "int" -> ToString(v.n)
      [] v.t = "bool" -> IF v.b THEN "True" ELSE "False"
      [] v.t = "str" -> v.s
      [] OTHER -> "<object>"

\* s in text: substring test on strings.
IsSubstring(s, text) ==
    \E i \in 1..(Len(text) - Len(s) + 1) : SubSeq(text, i, i + Len(s) - 1) = s

\* Whether "key in v" can be evaluated: None, numbers and booleans raise
\* TypeError (argument of type ... is not iterable).
Iterable(v) == v.t \in {"dict", "list", "str"}

\* key in v, for an iterable v: a key of a dict, an element of a list, a
\* substring of a string.
In(key, v) ==
    CASE v.t = "dict" -> key \in DOMAIN v.d
      [] v.t = "list" -> \E i \in 1..Len(v.l) : v.l[i] = Str(key)
      [] v.t = "str" -> IsSubstring(key, v.s)
      [] OTHER -> FALSE

----------------------------------------------------------------------------
(* format_id                                                               *)

RECURSIVE LStrip(_, _)
LStrip(s, c) ==
    IF Len(s) > 0 /\ SubSeq(s, 1, 1) = c THEN LStrip(SubSeq(s, 2, Len(s)), c) ELSE s

RECURSIVE RStrip(_, _)
RStrip(s, c) ==
    IF Len(s) > 0 /\ SubSeq(s, Len(s), Len(s)) = c
    THEN RStrip(SubSeq(s, 1, Len(s) - 1), c)
    ELSE s

\* A one-layer strip: at most one leading and one trailing c are removed.
StripOneLayer(s, c) ==
    LET a == IF Len(s) > 0 /\ SubSeq(s, 1, 1) = c THEN SubSeq(s, 2, Len(s)) ELSE s
    IN IF Len(a) > 0 /\ SubSeq(a, Len(a), Len(a)) = c THEN SubSeq(a, 1, Len(a) - 1) ELSE a

\* str.strip(c): every leading and every trailing c is removed.
Strip(s, c) == RStrip(LStrip(s, c), c)

Quote == "\""

format_id_one_layer(id_value) ==
    IF id_value = None THEN None ELSE Str(StripOneLayer(PyStr(id_value), Quote))

format_id(id_value) ==
    IF id_value = None THEN None ELSE Str(Strip(PyStr(id_value), Quote))

----------------------------------------------------------------------------
(* make_api_request: the part before the await (the choice of the          *)
(* transport call) and the part after it (the reading of the response).    *)

ErrorResult(msg) == Dict([error |-> Str(msg)])

Wire(verb, url, headers, params, json, data, files) ==
    [verb |-> verb, url |-> url, headers |-> headers, params |-> params,
     json |-> json, data |-> data, files |-> files]

\* The message of the TypeError a delete() without a json parameter raises.
DeleteJsonMessage ==
    "AsyncClient.delete() got an unexpected keyword argument 'json'"

\* Lines 55-76: which transport call is made, with which keyword arguments;
\* an unknown method raises ValueError inside the try block. Line 70 hands
\* json=data to client.delete: httpx declares no such parameter on delete(),
\* so the call raises TypeError before anything is sent; a transport whose
\* delete() takes the keyword sends the body. The source pins no transport
\* version, so both are modelled (delete_json).
make_api_request_send(url, headers, method, data, params, files) ==
    CASE method = "GET" ->
            [k |-> "wire", w |-> Wire("GET", url, headers, params, Absent, Absent, Absent)]
      [] method = "POST" ->
            IF Truthy(files)
            THEN [k |-> "wire", w |-> Wire("POST", url, headers, Absent, Absent, data, files)]
            ELSE [k |-> "wire", w |-> Wire("POST", url, headers, Absent, data, Absent, Absent)]
      [] method = "PUT" ->
            [k |-> "wire", w |-> Wire("PUT", url, headers, Absent, data, Absent, Absent)]
      [] method = "DELETE" ->
            IF Truthy(data)
            THEN IF delete_json
                 THEN [k |-> "wire", w |-> Wire("DELETE", url, headers, Absent, data, Absent, Absent)]
                 ELSE [k |-> "exc", e |-> Exc("TypeError", DeleteJsonMessage)]
            ELSE [k |-> "wire", w |-> Wire("DELETE", url, headers, Absent, Absent, Absent, Absent)]
      [] method = "PATCH" ->
            [k |-> "wire", w |-> Wire("PATCH", url, headers, Absent, data, Absent, Absent)]
      [] OTHER ->
            [k |-> "exc", e |-> Exc("ValueError", "Unsupported method: " \o method)]

\* Lines 94-96: the handler of every Exception raised inside the try block.
ExceptionResult(msg) == ErrorResult("Exception during API request: " \o msg)

\* Line 88 without its return statement: the call falls through to None.
ParseFailureNone == None

\* Line 88: the result for a body json.JSONDecodeError rejects.
ParseFailureResult == ErrorResult("Failed to parse response as JSON")

\* Lines 91-93: the result for a status other than 200.
StatusFailureResult(status) ==
    ErrorResult("API request failed with status " \o ToString(status))

\* A dispatcher that accepts every 2xx status.
IsSuccessStatus2xx(status) == status \in 200..299

\* Line 80: the only status read as a success.
IsSuccessStatus(status) == status = 200

\* Lines 78-96: the result for an outcome of the exchange. response.json()
\* returns the decoded value, raises json.JSONDecodeError (caught at line 83)
\* or raises another exception (bytes that are no text in any encoding),
\* which only the outer handler catches.
make_api_request_recv(outcome) ==
    IF outcome.k = "exc"
    THEN ExceptionResult(outcome.msg)
    ELSE IF IsSuccessStatus(outcome.status)
         THEN CASE outcome.body.k = "json" -> outcome.body.v
                [] outcome.body.k = "malformed" -> ParseFailureResult
                [] OTHER -> ExceptionResult(outcome.body.msg)
         ELSE StatusFailureResult(outcome.status)

----------------------------------------------------------------------------
(* What every tool builds: headers, URL and the call of make_api_request.  *)

XANO_GLOBAL_API == "https://app.xano.com/api:meta"

NoToken == "<no token>"

\* The headers dict of the JSON tools.
StdHeaders(tok) ==
    {<<"Authorization", "Bearer " \o tok>>,
     <<"Content-Type", "application/json">>,
     <<"Accept", "application/json">>}

\* The headers dict of the tools on table content.
LiveHeaders(tok) == StdHeaders(tok) \cup {<<"X-Data-Source", "live">>}

\* The headers dict of the JSON tools, copied into a multipart tool.
UploadHeadersWithJson(tok) == StdHeaders(tok)

\* The headers dict of the multipart tools.
UploadHeaders(tok) == {<<"Authorization", "Bearer " \o tok>>}

\* The base URL on the domain of the global API instead of the instance's.
meta_api_global(instance_name) == "https://app.xano.com/api:meta"

\* meta_api = f"https://{instance_name}.n7c.xano.io/api:meta"
meta_api(instance_name) == "https://" \o instance_name \o ".n7c.xano.io/api:meta"

\* Segments of a URL path: literal text, or an interpolated identifier
\* with the value that is interpolated.
Lit(s) == [lit |-> s]
Id(kind, v) == [kind |-> kind, v |-> v]
IsId(seg) == "kind" \in DOMAIN seg

Url(base, path) == [base |-> base, path |-> path]

\* The text of a URL: an f-string interpolates str(v).
RECURSIVE RenderPath(_)
RenderPath(path) ==
    IF path = <<>> THEN ""
    ELSE "/" \o (IF IsId(Head(path)) THEN PyStr(Head(path).v) ELSE Head(path).lit)
         \o RenderPath(Tail(path))

RenderUrl(u) == u.base \o RenderPath(u.path)

\* A tool's call of make_api_request; stage numbers the calls of a tool.
Request(url, headers, method, data, params, files) ==
    [k |-> "request", url |-> url, headers |-> headers, method |-> method,
     data |-> data, params |-> params, files |-> files]

Return(v) == [k |-> "return", v |-> v]
Raise(kind) == [k |-> "raise", e |-> Exc(kind, "")]

NoDict == [k \in {} |-> None]
Opt(cond, key, val) == IF cond THEN (key :> val) ELSE NoDict

WsPath(a) == <<Lit("workspace"), Id("workspace", format_id(a.workspace_id))>>

TablePath(a) ==
    WsPath(a) \o <<Lit("table"), Id("table", format_id(a.table_id))>>

----------------------------------------------------------------------------
(* Instance and database operations.                                        *)

FallbackInstances ==
    List(<<Dict([name |-> Str("xnwv-v1z6-dvnr"),
                 display |-> Str("Robert"),
                 xano_domain |-> Str("xnwv-v1z6-dvnr.n7c.xano.io"),
                 rate_limit |-> PyBool(FALSE),
                 meta_api |-> Str("https://xnwv-v1z6-dvnr.n7c.xano.io/api:meta"),
                 meta_swagger |->
                     Str("https://xnwv-v1z6-dvnr.n7c.xano.io/apispec:meta?type=json")])>>)

xano_list_instances(tok, a) ==
    Request(Url(XANO_GLOBAL_API, <<Lit("auth"), Lit("me")>>), StdHeaders(tok),
            "GET", None, None, None)

\* result["instances"]: a key lookup on a dict; a list or a string raises
\* TypeError for a string index.
xano_list_instances_after(result) ==
    IF ~Iterable(result) THEN Raise("TypeError")
    ELSE IF ~In("error", result) /\ In("instances", result)
         THEN IF result.t = "dict"
              THEN Return(Dict([instances |-> result.d["instances"]]))
              ELSE Raise("TypeError")
         ELSE Return(Dict([instances |-> FallbackInstances]))

\* instance_name.split("-")[0].upper(), for the instance names of the model.
DisplayOf(instance_name) ==
    CASE instance_name = "xnwv-v1z6-dvnr" -> "XNWV"
      [] instance_name = "acme" -> "ACME"
      [] OTHER -> instance_name

xano_get_instance_details(a) ==
    Return(Dict([name |-> Str(a.instance_name),
                 display |-> Str(DisplayOf(a.instance_name)),
                 xano_domain |-> Str(a.instance_name \o ".n7c.xano.io"),
                 rate_limit |-> PyBool(FALSE),
                 meta_api |-> Str(meta_api(a.instance_name)),
                 meta_swagger |->
                     Str("https://" \o a.instance_name
                         \o ".n7c.xano.io/apispec:meta?type=json")]))

xano_list_databases(tok, a) ==
    Request(Url(meta_api(a.instance_name), <<Lit("workspace")>>), StdHeaders(tok),
            "GET", None, None, None)

xano_list_databases_after(result) ==
    IF ~Iterable(result) THEN Raise("TypeError")
    ELSE IF In("error", result) THEN Return(result)
         ELSE Return(Dict([databases |-> result]))

xano_get_workspace_details(tok, a) ==
    Request(Url(meta_api(a.instance_name), WsPath(a)), StdHeaders(tok),
            "GET", None, None, None)

----------------------------------------------------------------------------
(* Table operations.                                                        *)

xano_list_tables(tok, a) ==
    Request(Url(meta_api(a.instance_name),
                <<Lit("workspace"), Id("workspace", format_id(a.database_name)),
                  Lit("table")>>),
            StdHeaders(tok), "GET", None, None, None)

xano_list_tables_after(result) ==
    IF ~Iterable(result) THEN Raise("TypeError")
    ELSE IF In("error", result) THEN Return(result)
         ELSE IF In("items", result)
              THEN IF result.t = "dict"
                   THEN Return(Dict([tables |-> result.d["items"]]))
                   ELSE Raise("TypeError")
              ELSE Return(Dict([tables |-> result]))

xano_get_table_details(tok, a) ==
    Request(Url(meta_api(a.instance_name), TablePath(a)), StdHeaders(tok),
            "GET", None, None, None)

xano_create_table(tok, a) ==
    Request(Url(meta_api(a.instance_name), WsPath(a) \o <<Lit("table")>>),
            StdHeaders(tok), "POST",
            Dict([name |-> a.name, description |-> a.description,
                  docs |-> a.docs, auth |-> a.auth]
                 @@ Opt(Truthy(a.tag), "tag", a.tag)),
            None, None)

\* Whether an optional field of an update goes into the body, decided by
\* truthiness instead of "is not None".
SuppliedIfTruthy(v) == Truthy(v)

\* "if name is not None": whether an optional field goes into the body.
Supplied(v) == v # None

xano_update_table(tok, a) ==
    Request(Url(meta_api(a.instance_name), TablePath(a) \o <<Lit("meta")>>),
            StdHeaders(tok), "PUT",
            Dict(Opt(Supplied(a.name), "name", a.name)
                 @@ Opt(Supplied(a.description), "description", a.description)
                 @@ Opt(Supplied(a.docs), "docs", a.docs)
                 @@ Opt(Supplied(a.auth), "auth", a.auth)
                 @@ Opt(Supplied(a.tag), "tag", a.tag)),
            None, None)

\* The delete that names its table in a body as well.
xano_delete_table_with_body(tok, a) ==
    Request(Url(meta_api(a.instance_name), TablePath(a)), StdHeaders(tok),
            "DELETE", Dict([table_id |-> format_id(a.table_id)]), None, None)

xano_delete_table(tok, a) ==
    Request(Url(meta_api(a.instance_name), TablePath(a)), StdHeaders(tok),
            "DELETE", None, None, None)

----------------------------------------------------------------------------
(* Table schema operations.                                                 *)

xano_get_table_schema(tok, a) ==
    Request(Url(meta_api(a.instance_name), TablePath(a) \o <<Lit("schema")>>),
            StdHeaders(tok), "GET", None, None, None)

xano_get_table_schema_after(result) ==
    IF ~Iterable(result) THEN Raise("TypeError")
    ELSE IF In("error", result) THEN Return(result)
         ELSE Return(Dict([schema |-> result]))

xano_update_table_schema(tok, a) ==
    Request(Url(meta_api(a.instance_name), TablePath(a) \o <<Lit("schema")>>),
            StdHeaders(tok), "PUT", Dict([schema |-> a.schema]), None, None)

\* The descriptor whose default is kept only when it is truthy.
NewFieldTruthyDefault(a) ==
    Dict([name |-> a.field_name, type |-> a.field_type,
          description |-> a.description, nullable |-> a.nullable,
          required |-> a.required, access |-> a.access,
          sensitive |-> a.sensitive, style |-> a.style]
         @@ Opt(Truthy(a.default), "default", a.default)
         @@ Opt(Truthy(a.validators) /\ a.field_type = Str("text"),
                "validators", a.validators))

\* Lines 542-560: the descriptor of the new field.
NewField(a) ==
    Dict([name |-> a.field_name, type |-> a.field_type,
          description |-> a.description, nullable |-> a.nullable,
          required |-> a.required, access |-> a.access,
          sensitive |-> a.sensitive, style |-> a.style]
         @@ Opt(a.default # None, "default", a.default)
         @@ Opt(Truthy(a.validators) /\ a.field_type = Str("text"),
                "validators", a.validators))

\* The identifiers xano_add_field_to_schema hands to the two tools it calls.
InnerTableArgs(a) ==
    [instance_name |-> a.instance_name,
     workspace_id |-> format_id(a.workspace_id),
     table_id |-> format_id(a.table_id)]

\* Lines 520-536: up to the await of the schema read.
xano_add_field_to_schema(tok, a) == xano_get_table_schema(tok, InnerTableArgs(a))

\* The write sends the new descriptor alone instead of the extended array.
xano_add_field_put_new_only(tok, a, result) ==
    LET current_schema_result == xano_get_table_schema_after(result)
    IN IF current_schema_result.k = "raise" THEN current_schema_result
       ELSE IF In("error", current_schema_result.v)
            THEN Return(current_schema_result.v)
            ELSE xano_update_table_schema(tok,
                    InnerTableArgs(a) @@ [schema |-> List(<<NewField(a)>>)])

\* The write goes out after a failed read too, from an empty schema.
xano_add_field_write_anyway(tok, a, result) ==
    LET current_schema_result == xano_get_table_schema_after(result)
    IN IF current_schema_result.k = "raise" THEN current_schema_result
       ELSE IF In("error", current_schema_result.v)
            THEN xano_update_table_schema(tok,
                    InnerTableArgs(a) @@ [schema |-> List(<<NewField(a)>>)])
            ELSE LET current_schema == current_schema_result.v.d["schema"]
                 IN IF current_schema.t # "list" THEN Raise("AttributeError")
                    ELSE xano_update_table_schema(tok,
                            InnerTableArgs(a) @@
                            [schema |-> List(Append(current_schema.l, NewField(a)))])

\* The schema read tried again when it failed.
xano_add_field_read_again(tok, a, result) ==
    LET current_schema_result == xano_get_table_schema_after(result)
    IN IF current_schema_result.k = "raise" THEN current_schema_result
       ELSE IF In("error", current_schema_result.v)
            THEN xano_get_table_schema(tok, InnerTableArgs(a))
            ELSE Return(current_schema_result.v)

\* Lines 534-568, after the schema read: current_schema.append raises
\* AttributeError when the payload is no list.
xano_add_field_to_schema_after(tok, a, result) ==
    LET current_schema_result == xano_get_table_schema_after(result)
    IN IF current_schema_result.k = "raise" THEN current_schema_result
       ELSE IF In("error", current_schema_result.v)
            THEN Return(current_schema_result.v)
            ELSE LET current_schema == current_schema_result.v.d["schema"]
                 IN IF current_schema.t # "list" THEN Raise("AttributeError")
                    ELSE xano_update_table_schema(tok,
                            InnerTableArgs(a) @@
                            [schema |-> List(Append(current_schema.l, NewField(a)))])

xano_rename_schema_field(tok, a) ==
    Request(Url(meta_api(a.instance_name),
                TablePath(a) \o <<Lit("schema"), Lit("rename")>>),
            StdHeaders(tok), "POST",
            Dict([old_name |-> a.old_name, new_name |-> a.new_name]), None, None)

\* The field name goes into the path as the caller gave it.
xano_get_field_schema(tok, a) ==
    Request(Url(meta_api(a.instance_name),
                TablePath(a) \o <<Lit("schema"), Id("field", a.field_name)>>),
            StdHeaders(tok), "GET", None, None, None)

xano_delete_field(tok, a) ==
    Request(Url(meta_api(a.instance_name),
                TablePath(a) \o <<Lit("schema"), Id("field", a.field_name)>>),
            StdHeaders(tok), "DELETE", None, None, None)

----------------------------------------------------------------------------
(* Table index operations.                                                  *)

IndexPath(a, suffix) == TablePath(a) \o <<Lit("index")>> \o suffix

xano_list_indexes(tok, a) ==
    Request(Url(meta_api(a.instance_name), IndexPath(a, <<>>)), StdHeaders(tok),
            "GET", None, None, None)

xano_create_btree_index(tok, a) ==
    Request(Url(meta_api(a.instance_name), IndexPath(a, <<Lit("btree")>>)),
            StdHeaders(tok), "POST", Dict([fields |-> a.fields]), None, None)

xano_create_unique_index(tok, a) ==
    Request(Url(meta_api(a.instance_name), IndexPath(a, <<Lit("unique")>>)),
            StdHeaders(tok), "POST", Dict([fields |-> a.fields]), None, None)

xano_create_search_index(tok, a) ==
    Request(Url(meta_api(a.instance_name), IndexPath(a, <<Lit("search")>>)),
            StdHeaders(tok), "POST",
            Dict([name |-> a.name, lang |-> a.lang, fields |-> a.fields]), None, None)

xano_create_spatial_index(tok, a) ==
    Request(Url(meta_api(a.instance_name), IndexPath(a, <<Lit("spatial")>>)),
            StdHeaders(tok), "POST", Dict([fields |-> a.fields]), None, None)

xano_create_vector_index(tok, a) ==
    Request(Url(meta_api(a.instance_name), IndexPath(a, <<Lit("vector")>>)),
            StdHeaders(tok), "POST", Dict([fields |-> a.fields]), None, None)

xano_delete_index(tok, a) ==
    Request(Url(meta_api(a.instance_name),
                IndexPath(a, <<Id("index", format_id(a.index_id))>>)),
            StdHeaders(tok), "DELETE", None, None, None)

xano_update_all_indexes(tok, a) ==
    Request(Url(meta_api(a.instance_name), IndexPath(a, <<>>)), StdHeaders(tok),
            "PUT", Dict([index |-> a.indexes]), None, None)

----------------------------------------------------------------------------
(* Table content operations.                                                *)

ContentPath(a, suffix) == TablePath(a) \o <<Lit("content")>> \o suffix

RecordPath(a) == ContentPath(a, <<Id("record", format_id(a.record_id))>>)

xano_browse_table_content(tok, a) ==
    Request(Url(meta_api(a.instance_name), ContentPath(a, <<>>)), LiveHeaders(tok),
            "GET", None, Dict([page |-> a.page, per_page |-> a.per_page]), None)

\* The search whose body names sort whether or not one was given.
xano_search_sort_always(tok, a) ==
    Request(Url(meta_api(a.instance_name), ContentPath(a, <<Lit("search")>>)),
            LiveHeaders(tok), "POST",
            Dict([page |-> a.page, per_page |-> a.per_page,
                  search |-> IF Truthy(a.search_conditions)
                             THEN a.search_conditions ELSE List(<<>>),
                  sort |-> a.sort]),
            None, None)

xano_search_table_content(tok, a) ==
    Request(Url(meta_api(a.instance_name), ContentPath(a, <<Lit("search")>>)),
            LiveHeaders(tok), "POST",
            Dict([page |-> a.page, per_page |-> a.per_page,
                  search |-> IF Truthy(a.search_conditions)
                             THEN a.search_conditions ELSE List(<<>>)]
                 @@ Opt(Truthy(a.sort), "sort", a.sort)),
            None, None)

xano_get_table_record(tok, a) ==
    Request(Url(meta_api(a.instance_name), RecordPath(a)), LiveHeaders(tok),
            "GET", None, None, None)

xano_create_table_record(tok, a) ==
    Request(Url(meta_api(a.instance_name), ContentPath(a, <<>>)), LiveHeaders(tok),
            "POST", a.record_data, None, None)

xano_update_table_record(tok, a) ==
    Request(Url(meta_api(a.instance_name), RecordPath(a)), LiveHeaders(tok),
            "PUT", a.record_data, None, None)

xano_delete_table_record(tok, a) ==
    Request(Url(meta_api(a.instance_name), RecordPath(a)), LiveHeaders(tok),
            "DELETE", None, None, None)

xano_search_and_update_records(tok, a) ==
    Request(Url(meta_api(a.instance_name),
                ContentPath(a, <<Lit("search"), Lit("patch")>>)),
            LiveHeaders(tok), "POST",
            Dict([search |-> a.search_conditions, updates |-> a.updates]), None, None)

xano_search_and_delete_records(tok, a) ==
    Request(Url(meta_api(a.instance_name),
                ContentPath(a, <<Lit("search"), Lit("delete")>>)),
            LiveHeaders(tok), "POST", Dict([search |-> a.search_conditions]),
            None, None)

xano_bulk_create_records(tok, a) ==
    Request(Url(meta_api(a.instance_name), ContentPath(a, <<Lit("bulk")>>)),
            LiveHeaders(tok), "POST",
            Dict([items |-> a.records, allow_id_field |-> a.allow_id_field]),
            None, None)

xano_bulk_update_records(tok, a) ==
    Request(Url(meta_api(a.instance_name),
                ContentPath(a, <<Lit("bulk"), Lit("patch")>>)),
            LiveHeaders(tok), "POST", Dict([items |-> a.updates]), None, None)

xano_bulk_delete_records(tok, a) ==
    Request(Url(meta_api(a.instance_name),
                ContentPath(a, <<Lit("bulk"), Lit("delete")>>)),
            LiveHeaders(tok), "POST", Dict([row_ids |-> a.record_ids]), None, None)

xano_truncate_table(tok, a) ==
    Request(Url(meta_api(a.instance_name), TablePath(a) \o <<Lit("truncate")>>),
            LiveHeaders(tok), "DELETE", Dict([reset |-> a.reset]), None, None)

----------------------------------------------------------------------------
(* File operations.                                                         *)

\* The local files of the model: open(file_path, "rb").read() returns the
\* content of a readable file and raises for any other path.
ReadableFiles == {"/data/logo.png"}
FileContent(file_path) == "<bytes of " \o file_path \o ">"
OpenErrorMessage(file_path) ==
    "[Errno 2] No such file or directory: '" \o file_path \o "'"

\* os.path.basename, for the paths of the model.
Basename(file_path) ==
    CASE file_path = "/data/logo.png" -> "logo.png"
      [] file_path = "/missing.bin" -> "missing.bin"
      [] OTHER -> file_path

\* The part is built before the content of the file is there.
FilePartUnread(part, file_path) == Dict(part :> Bytes(Basename(file_path), ""))

\* files = {part: (filename, file_content)}
FilePart(part, file_path) ==
    Dict(part :> Bytes(Basename(file_path), FileContent(file_path)))

FilePath(a, suffix) == WsPath(a) \o <<Lit("file")>> \o suffix

\* The listing that names an order whether or not a sort was given.
xano_list_files_order_always(tok, a) ==
    Request(Url(meta_api(a.instance_name), FilePath(a, <<>>)), StdHeaders(tok),
            "GET", None,
            Dict([page |-> a.page, per_page |-> a.per_page, order |-> a.order]
                 @@ Opt(Truthy(a.search), "search", a.search)
                 @@ Opt(Truthy(a.access), "access", a.access)
                 @@ Opt(Truthy(a.sort), "sort", a.sort)),
            None)

xano_list_files(tok, a) ==
    Request(Url(meta_api(a.instance_name), FilePath(a, <<>>)), StdHeaders(tok),
            "GET", None,
            Dict([page |-> a.page, per_page |-> a.per_page]
                 @@ Opt(Truthy(a.search), "search", a.search)
                 @@ Opt(Truthy(a.access), "access", a.access)
                 @@ Opt(Truthy(a.sort), "sort", a.sort)
                 @@ Opt(Truthy(a.sort), "order", a.order)),
            None)

\* The upload that sends its request whether or not the file was read.
xano_upload_file_unread(tok, a) ==
    Request(Url(meta_api(a.instance_name), FilePath(a, <<>>)),
            UploadHeaders(tok), "POST",
            Dict(Opt(Truthy(a.file_type), "type", a.file_type)
                 @@ Opt(Truthy(a.file_access), "access", a.file_access)),
            None, Dict("content" :> Bytes(Basename(a.file_path), "")))

xano_upload_file(tok, a) ==
    IF a.file_path \notin ReadableFiles
    THEN Return(ErrorResult("Error uploading file: " \o OpenErrorMessage(a.file_path)))
    ELSE Request(Url(meta_api(a.instance_name), FilePath(a, <<>>)),
                 UploadHeaders(tok), "POST",
                 Dict(Opt(Truthy(a.file_type), "type", a.file_type)
                      @@ Opt(Truthy(a.file_access), "access", a.file_access)),
                 None, FilePart("content", a.file_path))

xano_get_file_details(tok, a) ==
    Request(Url(meta_api(a.instance_name),
                FilePath(a, <<Id("file", format_id(a.file_id))>>)),
            StdHeaders(tok), "GET", None, None, None)

xano_delete_file(tok, a) ==
    Request(Url(meta_api(a.instance_name),
                FilePath(a, <<Id("file", format_id(a.file_id))>>)),
            StdHeaders(tok), "DELETE", None, None, None)

xano_bulk_delete_files(tok, a) ==
    Request(Url(meta_api(a.instance_name), FilePath(a, <<Lit("bulk_delete")>>)),
            StdHeaders(tok), "DELETE", Dict([ids |-> a.file_ids]), None, None)

----------------------------------------------------------------------------
(* Request history operations.                                              *)

\* str(include_output).lower()
LowerBool(v) == IF v.b THEN "true" ELSE "false"

xano_browse_request_history(tok, a) ==
    Request(Url(meta_api(a.instance_name), WsPath(a) \o <<Lit("request_history")>>),
            StdHeaders(tok), "GET", None,
            Dict([page |-> a.page, per_page |-> a.per_page]
                 @@ Opt(Truthy(a.branch), "branch", a.branch)
                 @@ Opt(Truthy(a.api_id), "api_id", format_id(a.api_id))
                 @@ Opt(Truthy(a.query_id), "query_id", format_id(a.query_id))
                 @@ Opt(Truthy(a.include_output), "include_output",
                        Str(LowerBool(a.include_output)))),
            None)

xano_search_request_history(tok, a) ==
    Request(Url(meta_api(a.instance_name),
                WsPath(a) \o <<Lit("request_history"), Lit("search")>>),
            StdHeaders(tok), "POST",
            Dict([page |-> a.page, per_page |-> a.per_page,
                  search |-> IF Truthy(a.search_conditions)
                             THEN a.search_conditions ELSE List(<<>>)]
                 @@ Opt(Truthy(a.sort), "sort", a.sort)
                 @@ Opt(Truthy(a.branch_id), "branch_id", format_id(a.branch_id))
                 @@ Opt(Truthy(a.api_id), "api_id", format_id(a.api_id))
                 @@ Opt(Truthy(a.query_id), "query_id", format_id(a.query_id))
                 @@ Opt(Truthy(a.include_output), "include_output", a.include_output)),
            None, None)

----------------------------------------------------------------------------
(* Workspace import and export operations.                                  *)

ExportData(a) ==
    Dict(Opt(Truthy(a.branch), "branch", a.branch)
         @@ Opt(Truthy(a.password), "password", a.password))

xano_export_workspace(tok, a) ==
    Request(Url(meta_api(a.instance_name), WsPath(a) \o <<Lit("export")>>),
            StdHeaders(tok), "POST", ExportData(a), None, None)

xano_export_workspace_schema(tok, a) ==
    Request(Url(meta_api(a.instance_name), WsPath(a) \o <<Lit("export-schema")>>),
            StdHeaders(tok), "POST", ExportData(a), None, None)

xano_import_workspace(tok, a) ==
    IF a.file_path \notin ReadableFiles
    THEN Return(ErrorResult("Error importing workspace: "
                            \o OpenErrorMessage(a.file_path)))
    ELSE Request(Url(meta_api(a.instance_name), WsPath(a) \o <<Lit("import")>>),
                 UploadHeaders(tok), "POST",
                 Dict(Opt(Truthy(a.password), "password", a.password)),
                 None, FilePart("file", a.file_path))

xano_import_workspace_schema(tok, a) ==
    IF a.file_path \notin ReadableFiles
    THEN Return(ErrorResult("Error importing workspace schema: "
                            \o OpenErrorMessage(a.file_path)))
    ELSE Request(Url(meta_api(a.instance_name),
                     WsPath(a) \o <<Lit("import-schema")>>),
                 UploadHeaders(tok), "POST",
                 Dict([newbranch |-> a.new_branch,
                       setlive |-> Str(LowerBool(a.set_live))]
                      @@ Opt(Truthy(a.password), "password", a.password)),
                 None, FilePart("file", a.file_path))

----------------------------------------------------------------------------
(* The catalog: the tools registered with @mcp.tool(), and the two helpers  *)
(* as directly callable functions.                                          *)

CatalogOps ==
    {"xano_list_instances", "xano_get_instance_details", "xano_list_databases",
     "xano_get_workspace_details", "xano_list_tables",
     "xano_get_table_details", "xano_create_table", "xano_update_table",
     "xano_delete_table", "xano_get_table_schema", "xano_update_table_schema",
     "xano_add_field_to_schema", "xano_rename_schema_field",
     "xano_get_field_schema", "xano_delete_field", "xano_list_indexes",
     "xano_create_btree_index", "xano_create_unique_index",
     "xano_create_search_index", "xano_create_spatial_index",
     "xano_create_vector_index", "xano_delete_index",
     "xano_update_all_indexes", "xano_browse_table_content",
     "xano_search_table_content", "xano_get_table_record",
     "xano_create_table_record", "xano_update_table_record",
     "xano_delete_table_record", "xano_search_and_update_records",
     "xano_search_and_delete_records", "xano_bulk_create_records",
     "xano_bulk_update_records", "xano_bulk_delete_records",
     "xano_truncate_table", "xano_list_files", "xano_upload_file",
     "xano_get_file_details", "xano_delete_file", "xano_bulk_delete_files",
     "xano_browse_request_history", "xano_search_request_history",
     "xano_export_workspace", "xano_export_workspace_schema",
     "xano_import_workspace", "xano_import_workspace_schema"}

HelperOps == {"make_api_request", "format_id"}

Ops == CatalogOps \cup HelperOps

\* The tools that begin with token = get_token().
UsesToken(op) == op \in CatalogOps \ {"xano_get_instance_details"}

\* The tools that return the result of make_api_request as it is.
PassThroughOps ==
    CatalogOps \
        {"xano_list_instances", "xano_get_instance_details", "xano_list_databases",
         "xano_list_tables", "xano_get_table_schema", "xano_add_field_to_schema"}

\* A direct call make_api_request(url, headers, method, data, files=files).
DirectRequest(a) ==
    Request(Url(meta_api("acme"), <<Lit("workspace")>>), StdHeaders("caller"),
            a.method, a.data, None, a.files)

\* A tool's code up to its first await (or its return, when it awaits nothing).
Prep(op, tok, a) ==
    CASE op = "make_api_request" -> DirectRequest(a)
      [] op = "format_id" -> Return(format_id(a.id_value))
      [] op = "xano_list_instances" -> xano_list_instances(tok, a)
      [] op = "xano_get_instance_details" -> xano_get_instance_details(a)
      [] op = "xano_list_databases" -> xano_list_databases(tok, a)
      [] op = "xano_get_workspace_details" -> xano_get_workspace_details(tok, a)
      [] op = "xano_list_tables" -> xano_list_tables(tok, a)
      [] op = "xano_get_table_details" -> xano_get_table_details(tok, a)
      [] op = "xano_create_table" -> xano_create_table(tok, a)
      [] op = "xano_update_table" -> xano_update_table(tok, a)
      [] op = "xano_delete_table" -> xano_delete_table(tok, a)
      [] op = "xano_get_table_schema" -> xano_get_table_schema(tok, a)
      [] op = "xano_update_table_schema" -> xano_update_table_schema(tok, a)
      [] op = "xano_add_field_to_schema" -> xano_add_field_to_schema(tok, a)
      [] op = "xano_rename_schema_field" -> xano_rename_schema_field(tok, a)
      [] op = "xano_get_field_schema" -> xano_get_field_schema(tok, a)
      [] op = "xano_delete_field" -> xano_delete_field(tok, a)
      [] op = "xano_list_indexes" -> xano_list_indexes(tok, a)
      [] op = "xano_create_btree_index" -> xano_create_btree_index(tok, a)
      [] op = "xano_create_unique_index" -> xano_create_unique_index(tok, a)
      [] op = "xano_create_search_index" -> xano_create_search_index(tok, a)
      [] op = "xano_create_spatial_index" -> xano_create_spatial_index(tok, a)
      [] op = "xano_create_vector_index" -> xano_create_vector_index(tok, a)
      [] op = "xano_delete_index" -> xano_delete_index(tok, a)
      [] op = "xano_update_all_indexes" -> xano_update_all_indexes(tok, a)
      [] op = "xano_browse_table_content" -> xano_browse_table_content(tok, a)
      [] op = "xano_search_table_content" -> xano_search_table_content(tok, a)
      [] op = "xano_get_table_record" -> xano_get_table_record(tok, a)
      [] op = "xano_create_table_record" -> xano_create_table_record(tok, a)
      [] op = "xano_update_table_record" -> xano_update_table_record(tok, a)
      [] op = "xano_delete_table_record" -> xano_delete_table_record(tok, a)
      [] op = "xano_search_and_update_records" -> xano_search_and_update_records(tok, a)
      [] op = "xano_search_and_delete_records" -> xano_search_and_delete_records(tok, a)
      [] op = "xano_bulk_create_records" -> xano_bulk_create_records(tok, a)
      [] op = "xano_bulk_update_records" -> xano_bulk_update_records(tok, a)
      [] op = "xano_bulk_delete_records" -> xano_bulk_delete_records(tok, a)
      [] op = "xano_truncate_table" -> xano_truncate_table(tok, a)
      [] op = "xano_list_files" -> xano_list_files(tok, a)
      [] op = "xano_upload_file" -> xano_upload_file(tok, a)
      [] op = "xano_get_file_details" -> xano_get_file_details(tok, a)
      [] op = "xano_delete_file" -> xano_delete_file(tok, a)
      [] op = "xano_bulk_delete_files" -> xano_bulk_delete_files(tok, a)
      [] op = "xano_browse_request_history" -> xano_browse_request_history(tok, a)
      [] op = "xano_search_request_history" -> xano_search_request_history(tok, a)
      [] op = "xano_export_workspace" -> xano_export_workspace(tok, a)
      [] op = "xano_export_workspace_schema" -> xano_export_workspace_schema(tok, a)
      [] op = "xano_import_workspace" -> xano_import_workspace(tok, a)
      [] op = "xano_import_workspace_schema" -> xano_import_workspace_schema(tok, a)

\* A tool's code after the await of its stage-th call of make_api_request,
\* which returned result.
After(op, tok, a, stage, result) ==
    CASE op = "xano_list_instances" -> xano_list_instances_after(result)
      [] op = "xano_list_databases" -> xano_list_databases_after(result)
      [] op = "xano_list_tables" -> xano_list_tables_after(result)
      [] op = "xano_get_table_schema" -> xano_get_table_schema_after(result)
      [] op = "xano_add_field_to_schema" /\ stage = 1 ->
            xano_add_field_to_schema_after(tok, a, result)
      [] OTHER -> Return(result)

\* No exchange took place: the call raised before it reached the transport.
NoExchange == [k |-> "none"]

\* One completed call of make_api_request: the outcome of its exchange and
\* the value it returned.
Completed(o, r) == [o |-> o, r |-> r]

\* Runs a tool from a call of make_api_request to its next suspension: the
\* call either reaches the transport, and the tool awaits, or raises inside
\* the try block, and the tool goes on with the handler's result. rs are the
\* calls completed on the way.
RECURSIVE Drive(_, _, _, _, _, _)
Drive(op, tok, a, n, stage, rs) ==
    IF n.k # "request" THEN [n |-> n, rs |-> rs]
    ELSE LET s == make_api_request_send(n.url, n.headers, n.method, n.data,
                                        n.params, n.files)
         IN IF s.k = "wire" THEN [n |-> [k |-> "await", w |-> s.w], rs |-> rs]
            ELSE LET r == ExceptionResult(s.e.msg)
                 IN Drive(op, tok, a, After(op, tok, a, stage, r), stage + 1,
                          Append(rs, Completed(NoExchange, r)))

----------------------------------------------------------------------------
(* The inputs of the model.                                                 *)

\* The most quote characters on either side of an identifier.
MaxQuotes == 2

RECURSIVE Rep(_, _)
Rep(c, n) == IF n = 0 THEN "" ELSE c \o Rep(c, n - 1)

\* The arguments of direct calls of format_id.
FormatIdInputs ==
    {None, PyInt(5), PyInt(0)}
    \cup {Str(Rep(Quote, i) \o core \o Rep(Quote, j)) :
            i \in 0..MaxQuotes, j \in 0..MaxQuotes, core \in {"7", "a\"b", "", "'x'"}}

InstanceNames == {"xnwv-v1z6-dvnr", "acme"}
IdInputs == {None, PyInt(5), Str("7"), Str("\"7\"")}
TableIdInputs == {None, Str("\"12\"")}
FieldNameInputs == {None, Str("email"), Str("\"email\"")}

Merge(S, R) == {x @@ y : x \in S, y \in R}

InstArgs == [instance_name : InstanceNames]
WsArgs == [instance_name : InstanceNames, workspace_id : IdInputs]
TableArgs ==
    [instance_name : InstanceNames, workspace_id : IdInputs, table_id : TableIdInputs]
\* One table, for the tools whose other arguments vary widely.
OneTableArgs ==
    [instance_name : {"acme"}, workspace_id : {Str("\"7\""), PyInt(5)},
     table_id : {Str("\"12\"")}]
OneWsArgs == [instance_name : {"acme"}, workspace_id : {Str("\"7\""), PyInt(5)}]

FieldDescriptor == Dict([name |-> Str("id"), type |-> Str("int")])
FieldLists == {List(<<>>), List(<<Dict([name |-> Str("email"), op |-> Str("asc")])>>)}
SearchInputs ==
    {None, List(<<>>),
     List(<<Dict([field |-> Str("status"), op |-> Str("eq"), value |-> Str("active")])>>)}
SortInputs == {None, EmptyDict, Dict([created_at |-> Str("desc")])}
RecordInputs == {EmptyDict, Dict([status |-> Str("active")])}
IdListInputs == {List(<<>>), List(<<Str("1"), Str("2")>>), List(<<Str("2"), Str("1")>>)}
PageInputs == {PyInt(1), PyInt(3)}
FilePathInputs == {"/data/logo.png", "/missing.bin"}
OptTextInputs == {None, Str(""), Str("v1")}

ArgsOf(op) ==
    CASE op = "make_api_request" ->
            [method : {"GET", "POST", "PUT", "DELETE", "PATCH", "HEAD"},
             data : {None, EmptyDict, Dict([reset |-> PyBool(FALSE)])},
             files : {None, FilePart("content", "/data/logo.png")}]
      [] op = "format_id" -> [id_value : FormatIdInputs]
      [] op = "xano_list_instances" -> {NoDict}
      [] op \in {"xano_get_instance_details", "xano_list_databases"} -> InstArgs
      [] op = "xano_list_tables" ->
            [instance_name : InstanceNames, database_name : IdInputs]
      [] op = "xano_create_table" ->
            Merge(WsArgs, [name : {Str("orders")}, description : {Str("")},
                           docs : {Str("")}, auth : {PyBool(FALSE)},
                           tag : {None, List(<<>>), List(<<Str("x")>>)}])
      [] op = "xano_update_table" ->
            Merge(OneTableArgs,
                  [name : {None, Str(""), Str("orders")},
                   description : {None, Str("")},
                   docs : {None, Str("d")},
                   auth : {None, PyBool(FALSE), PyBool(TRUE)},
                   tag : {None, List(<<>>), List(<<Str("x")>>)}])
      [] op = "xano_update_table_schema" ->
            Merge(TableArgs, [schema : {List(<<>>), List(<<FieldDescriptor>>)}])
      [] op = "xano_add_field_to_schema" ->
            Merge([instance_name : {"acme"}, workspace_id : {Str("\"7\""), None},
                   table_id : {Str("\"12\""), PyInt(5)}],
                  [field_name : {Str("total")},
                   field_type : {Str("text"), Str("decimal")},
                   description : {Str("")}, nullable : {PyBool(FALSE)},
                   default : {None, PyInt(0), Str("x")},
                   required : {PyBool(FALSE)}, access : {Str("public")},
                   sensitive : {PyBool(FALSE)}, style : {Str("single")},
                   validators : {None, EmptyDict, Dict([max |-> PyInt(5)])}])
      [] op = "xano_rename_schema_field" ->
            Merge(TableArgs, [old_name : {Str("a")}, new_name : {Str("b")}])
      [] op \in {"xano_get_field_schema", "xano_delete_field"} ->
            Merge(TableArgs, [field_name : FieldNameInputs])
      [] op \in {"xano_create_btree_index", "xano_create_unique_index",
                 "xano_create_spatial_index", "xano_create_vector_index"} ->
            Merge(TableArgs, [fields : FieldLists])
      [] op = "xano_create_search_index" ->
            Merge(TableArgs, [name : {Str("idx")}, lang : {Str("english")},
                              fields : FieldLists])
      [] op = "xano_delete_index" -> Merge(TableArgs, [index_id : IdInputs])
      [] op = "xano_update_all_indexes" -> Merge(TableArgs, [indexes : FieldLists])
      [] op = "xano_browse_table_content" ->
            Merge(TableArgs, [page : PageInputs, per_page : {PyInt(50)}])
      [] op = "xano_search_table_content" ->
            Merge(OneTableArgs,
                  [search_conditions : SearchInputs, sort : SortInputs,
                   page : PageInputs, per_page : {PyInt(50), PyInt(10)}])
      [] op \in {"xano_get_table_record", "xano_delete_table_record"} ->
            Merge(TableArgs, [record_id : IdInputs])
      [] op = "xano_create_table_record" ->
            Merge(TableArgs, [record_data : RecordInputs])
      [] op = "xano_update_table_record" ->
            Merge(TableArgs, [record_id : IdInputs, record_data : RecordInputs])
      [] op = "xano_search_and_update_records" ->
            Merge(TableArgs, [search_conditions : SearchInputs \ {None},
                              updates : RecordInputs])
      [] op = "xano_search_and_delete_records" ->
            Merge(TableArgs, [search_conditions : SearchInputs \ {None}])
      [] op = "xano_bulk_create_records" ->
            Merge(TableArgs, [records : {List(<<>>), List(<<EmptyDict>>)},
                              allow_id_field : {PyBool(FALSE), PyBool(TRUE)}])
      [] op = "xano_bulk_update_records" ->
            Merge(TableArgs, [updates : {List(<<>>), List(<<EmptyDict>>)}])
      [] op = "xano_bulk_delete_records" ->
            Merge(TableArgs, [record_ids : IdListInputs])
      [] op = "xano_truncate_table" ->
            Merge(TableArgs, [reset : {PyBool(FALSE), PyBool(TRUE)}])
      [] op = "xano_list_files" ->
            Merge(OneWsArgs,
                  [page : PageInputs, per_page : {PyInt(50)},
                   search : OptTextInputs, access : {None, Str("public")},
                   sort : {None, Str(""), Str("name")},
                   order : {Str("desc"), Str("asc")}])
      [] op = "xano_upload_file" ->
            Merge(WsArgs, [file_path : FilePathInputs,
                           file_type : {None, Str("image")},
                           file_access : {Str("public"), Str("")}])
      [] op \in {"xano_get_file_details", "xano_delete_file"} ->
            Merge(WsArgs, [file_id : IdInputs])
      [] op = "xano_bulk_delete_files" -> Merge(WsArgs, [file_ids : IdListInputs])
      [] op = "xano_browse_request_history" ->
            Merge(OneWsArgs,
                  [page : PageInputs, per_page : {PyInt(50)},
                   branch : OptTextInputs, api_id : {None, Str("\"3\"")},
                   query_id : {None, PyInt(4)},
                   include_output : {PyBool(FALSE), PyBool(TRUE)}])
      [] op = "xano_search_request_history" ->
            Merge(OneWsArgs,
                  [search_conditions : SearchInputs, sort : SortInputs,
                   page : {PyInt(1)}, per_page : {PyInt(50)},
                   branch_id : {None, Str("\"2\"")}, api_id : {None, Str("3")},
                   query_id : {None}, include_output : {PyBool(FALSE), PyBool(TRUE)}])
      [] op \in {"xano_export_workspace", "xano_export_workspace_schema"} ->
            Merge(WsArgs, [branch : OptTextInputs, password : {None, Str("pw")}])
      [] op = "xano_import_workspace" ->
            Merge(WsArgs, [file_path : FilePathInputs, password : {None, Str("pw")}])
      [] op = "xano_import_workspace_schema" ->
            Merge(WsArgs, [file_path : FilePathInputs, new_branch : {Str("v2")},
                           set_live : {PyBool(FALSE), PyBool(TRUE)},
                           password : {None, Str("pw")}])
      [] op = "xano_get_workspace_details" -> WsArgs
      [] OTHER -> TableArgs

\* What the remote service can answer with a decodable body.
JsonValues ==
    {None, PyInt(7), PyBool(TRUE), Str("ok"), Str("an error occurred"),
     List(<<>>), List(<<FieldDescriptor>>), List(<<Str("error")>>),
     List(<<Str("items"), Str("instances")>>),
     EmptyDict, Dict([id |-> PyInt(1)]),
     Dict([items |-> List(<<Dict([id |-> PyInt(1)])>>)]),
     Dict([instances |-> List(<<Dict([name |-> Str("acme")])>>)]),
     Dict([error |-> Str("API request failed with status 404")])}

\* The messages of the exceptions the transport can raise.
ExceptionMessages ==
    {"All connection attempts failed", "'utf-8' codec can't decode byte 0x80"}

\* The messages of the exceptions response.json() can raise, other than
\* json.JSONDecodeError.
DecodeExceptionMessages == {"'utf-8' codec can't decode byte 0x80"}

Statuses == {200, 201, 204, 404, 500}

Bodies ==
    [k : {"json"}, v : JsonValues] \cup {[k |-> "malformed"]}
    \cup [k : {"undecodable"}, msg : DecodeExceptionMessages]

\* The outcomes of one HTTP exchange: the transport raises, or a response
\* arrives. The body of a response whose status is not 200 is only logged.
Outcomes ==
    [k : {"exc"}, msg : ExceptionMessages]
    \cup [k : {"resp"}, status : {200}, body : Bodies]
    \cup [k : {"resp"}, status : Statuses \ {200},
          body : {[k |-> "json", v |-> Dict([id |-> PyInt(1)])], [k |-> "malformed"]}]

----------------------------------------------------------------------------
(* The state machine: tasks invoke tools; a tool runs to its await, the     *)
(* exchange ends with an outcome, and the tool runs on to its next await,   *)
(* its return or an exception.                                              *)

Tasks == {"main"}

Credentials == {NoToken, "secret"}

NoCall == [op |-> "", a |-> NoDict]

\* The schema of the table before any call.
InitialSchema == <<FieldDescriptor>>

Init ==
    /\ token \in Credentials
    /\ delete_json \in BOOLEAN
    /\ remote = InitialSchema
    /\ pc = [t \in Tasks |-> "idle"]
    /\ call = [t \in Tasks |-> NoCall]
    /\ sent = [t \in Tasks |-> <<>>]
    /\ got = [t \in Tasks |-> <<>>]
    /\ ret = [t \in Tasks |-> Absent]

\* Lines 22-40: the token found in the environment or the arguments, or
\* sys.exit(1).
get_token(found) ==
    IF found # NoToken THEN [k |-> "token", v |-> found]
    ELSE [k |-> "exit", e |-> Exc("SystemExit", "1")]

\* sys.exit(1) in get_token ends the process: no task runs on.
Alive == \A t \in DOMAIN pc : pc[t] # "exited"

\* The tools keep the value they return in one place all tasks read.
AdvanceSharedReturn(t, d) ==
    /\ got' = [got EXCEPT ![t] = @ \o d.rs]
    /\ CASE d.n.k = "await" ->
              /\ pc' = [pc EXCEPT ![t] = "await"]
              /\ sent' = [sent EXCEPT ![t] = Append(@, d.n.w)]
              /\ ret' = ret
         [] d.n.k = "return" ->
              /\ pc' = [pc EXCEPT ![t] = "done"]
              /\ ret' = [u \in DOMAIN ret |-> d.n.v]
              /\ sent' = sent
         [] OTHER ->
              /\ pc' = [pc EXCEPT ![t] = "raised"]
              /\ ret' = [ret EXCEPT ![t] = d.n.e]
              /\ sent' = sent

\* The tool of task t goes on from d.n, having completed the calls d.rs: it
\* awaits an exchange, returns or raises.
Advance(t, d) ==
    /\ got' = [got EXCEPT ![t] = @ \o d.rs]
    /\ CASE d.n.k = "await" ->
              /\ pc' = [pc EXCEPT ![t] = "await"]
              /\ sent' = [sent EXCEPT ![t] = Append(@, d.n.w)]
              /\ ret' = ret
         [] d.n.k = "return" ->
              /\ pc' = [pc EXCEPT ![t] = "done"]
              /\ ret' = [ret EXCEPT ![t] = d.n.v]
              /\ sent' = sent
         [] OTHER ->
              /\ pc' = [pc EXCEPT ![t] = "raised"]
              /\ ret' = [ret EXCEPT ![t] = d.n.e]
              /\ sent' = sent

\* Task t calls tool op with arguments a: get_token() first, then the code
\* up to the first await.
Start(t, op, a) ==
    /\ Alive
    /\ pc[t] = "idle"
    /\ call' = [call EXCEPT ![t] = [op |-> op, a |-> a]]
    /\ IF UsesToken(op) /\ get_token(token).k = "exit"
       THEN /\ pc' = [pc EXCEPT ![t] = "exited"]
            /\ ret' = [ret EXCEPT ![t] = get_token(token).e]
            /\ UNCHANGED <<sent, got>>
       ELSE Advance(t, Drive(op, token, a, Prep(op, token, a), 1, <<>>))
    /\ UNCHANGED <<token, delete_json, remote>>

\* A tool is called.
Invoke(t) ==
    /\ pc[t] = "idle"
    /\ \E op \in Ops : \E a \in ArgsOf(op) : Start(t, op, a)

\* The exchange of task t ends with outcome o: make_api_request returns and
\* the tool runs on.
Receive(t, o) ==
    /\ Alive
    /\ pc[t] = "await"
    /\ LET stage == Len(sent[t])
           result == make_api_request_recv(o)
       IN Advance(t, Drive(call[t].op, token, call[t].a,
                           After(call[t].op, token, call[t].a, stage, result),
                           stage + 1, <<Completed(o, result)>>))
    /\ UNCHANGED <<token, delete_json, call>>

\* The exchange of task t ends with any outcome the service or the network
\* can produce.
Respond(t) ==
    /\ pc[t] = "await"
    /\ \E o \in Outcomes : Receive(t, o)
    /\ UNCHANGED remote

\* The caller has the result (or the error the framework made of the
\* exception); the task is free for the next call.
Finish(t) ==
    /\ Alive
    /\ pc[t] \in {"done", "raised"}
    /\ pc' = [pc EXCEPT ![t] = "idle"]
    /\ call' = [call EXCEPT ![t] = NoCall]
    /\ sent' = [sent EXCEPT ![t] = <<>>]
    /\ got' = [got EXCEPT ![t] = <<>>]
    /\ ret' = [ret EXCEPT ![t] = Absent]
    /\ UNCHANGED <<token, delete_json, remote>>

Next ==
    \/ \E t \in DOMAIN pc : Invoke(t)
    \/ \E t \in DOMAIN pc : Respond(t)
    \/ \E t \in DOMAIN pc : Finish(t)

Spec == Init /\ [][Next]_vars

----------------------------------------------------------------------------
(* Two callers add fields to one table of a service that keeps the schema  *)
(* it was last sent: GET /schema answers with the stored array, PUT        *)
(* /schema replaces it (spec section 4.2, "full-schema replace").          *)

RaceTasks == {"a", "b"}

\* The longest schema from which a caller still starts to add a field.
MaxSchemaLen == 3

RaceArgs ==
    Merge([instance_name : {"acme"}, workspace_id : {Str("\"7\"")},
           table_id : {Str("\"12\"")}],
          [field_name : {Str("total"), Str("note")},
           field_type : {Str("decimal")},
           description : {Str("")}, nullable : {PyBool(FALSE)},
           default : {None}, required : {PyBool(FALSE)},
           access : {Str("public")}, sensitive : {PyBool(FALSE)},
           style : {Str("single")}, validators : {None}])

InitRace ==
    /\ token = "secret"
    /\ delete_json \in BOOLEAN
    /\ remote = InitialSchema
    /\ pc = [t \in RaceTasks |-> "idle"]
    /\ call = [t \in RaceTasks |-> NoCall]
    /\ sent = [t \in RaceTasks |-> <<>>]
    /\ got = [t \in RaceTasks |-> <<>>]
    /\ ret = [t \in RaceTasks |-> Absent]

InvokeAddField(t) ==
    /\ pc[t] = "idle"
    /\ Len(remote) < MaxSchemaLen
    /\ \E a \in RaceArgs : Start(t, "xano_add_field_to_schema", a)

\* The answer of the service to a request on the table's schema.
Answer(v) == [k |-> "resp", status |-> 200, body |-> [k |-> "json", v |-> v]]

\* The service handles the request task t awaits: a GET reads the stored
\* schema, a PUT stores the schema of its body and answers with it.
Serve(t) ==
    /\ pc[t] = "await"
    /\ LET w == sent[t][Len(sent[t])]
       IN IF w.verb = "PUT"
          THEN /\ remote' = w.json.d["schema"].l
               /\ Receive(t, Answer(List(w.json.d["schema"].l)))
          ELSE /\ remote' = remote
               /\ Receive(t, Answer(List(remote)))

NextRace ==
    \/ \E t \in DOMAIN pc : InvokeAddField(t)
    \/ \E t \in DOMAIN pc : Serve(t)
    \/ \E t \in DOMAIN pc : Finish(t)

SpecRace == InitRace /\ [][NextRace]_vars

----------------------------------------------------------------------------
(* Two callers run tools at the same time; the exchanges end in any order   *)
(* and with any outcome.                                                   *)

PairOps ==
    {"xano_add_field_to_schema", "xano_list_instances", "xano_get_instance_details",
     "xano_upload_file", "xano_bulk_delete_files", "xano_list_tables"}

PairArgs(op) ==
    CASE op = "xano_add_field_to_schema" -> RaceArgs
      [] op = "xano_list_instances" -> {NoDict}
      [] op = "xano_get_instance_details" -> [instance_name : {"acme"}]
      [] op = "xano_list_tables" ->
            [instance_name : {"acme"}, database_name : {Str("\"7\"")}]
      [] op = "xano_upload_file" ->
            Merge(OneWsArgs, [file_path : FilePathInputs, file_type : {None},
                              file_access : {Str("public")}])
      [] OTHER -> Merge(OneWsArgs, [file_ids : IdListInputs])

PairOutcomes ==
    {o \in Outcomes :
        \/ o.k = "exc" /\ o.msg = "All connection attempts failed"
        \/ o.k = "resp" /\ o.status = 500 /\ o.body.k = "malformed"
        \/ /\ o.k = "resp" /\ o.status = 200 /\ o.body.k = "json"
           /\ o.body.v \in {None, List(<<FieldDescriptor>>),
                             Dict([items |-> List(<<Dict([id |-> PyInt(1)])>>)]),
                             Dict([instances |-> List(<<Dict([name |-> Str("acme")])>>)])}}

InitPair ==
    /\ token \in Credentials
    /\ delete_json \in BOOLEAN
    /\ remote = InitialSchema
    /\ pc = [t \in RaceTasks |-> "idle"]
    /\ call = [t \in RaceTasks |-> NoCall]
    /\ sent = [t \in RaceTasks |-> <<>>]
    /\ got = [t \in RaceTasks |-> <<>>]
    /\ ret = [t \in RaceTasks |-> Absent]

InvokePair(t) ==
    /\ pc[t] = "idle"
    /\ \E op \in PairOps : \E a \in PairArgs(op) : Start(t, op, a)

RespondPair(t) ==
    /\ pc[t] = "await"
    /\ \E o \in PairOutcomes : Receive(t, o)
    /\ UNCHANGED remote

NextPair ==
    \/ \E t \in DOMAIN pc : InvokePair(t)
    \/ \E t \in DOMAIN pc : RespondPair(t)
    \/ \E t \in DOMAIN pc : Finish(t)

SpecPair == InitPair /\ [][NextPair]_vars

----------------------------------------------------------------------------
(* Properties.                                                              *)

\* A mapping with an "error" entry.
IsErrorMapping(v) == v.t = "dict" /\ "error" \in DOMAIN v.d

\* An exchange that did not end with status 200 and a decodable body, or a
\* call that never reached the transport.
FailedOutcome(o) ==
    \/ o.k \in {"none", "exc"}
    \/ o.k = "resp" /\ (o.status # 200 \/ o.body.k # "json")

\* C1: every call of make_api_request whose exchange fails (the transport
\* raises, the status is not 200, the body of a 200 is no JSON) or whose
\* method is unsupported returns a mapping with an "error" entry, and a
\* direct call of make_api_request never ends with an exception.
C1_DispatcherReturnsErrorMapping ==
    \A t \in DOMAIN pc :
        /\ \A i \in 1..Len(got[t]) :
              FailedOutcome(got[t][i].o) => IsErrorMapping(got[t][i].r)
        /\ call[t].op = "make_api_request" => pc[t] \in {"await", "done"}
        /\ call[t].op = "make_api_request" /\ pc[t] = "done" =>
              Len(got[t]) = 1 /\ ret[t] = got[t][1].r

C1_Witness ==
    \E t \in DOMAIN pc :
        /\ call[t].op = "make_api_request" /\ call[t].a.method = "HEAD"
        /\ pc[t] = "done" /\ got[t][1].o = NoExchange
        /\ IsErrorMapping(ret[t])

\* C2: with a credential present, no catalog operation ends with an
\* exception, whatever the outcome of its exchanges.
C2_CatalogNeverRaises ==
    \A t \in DOMAIN pc :
        token # NoToken /\ call[t].op \in CatalogOps => pc[t] # "raised"

\* C3: a call of make_api_request whose exchange got a response returns the
\* decoded payload when the status is 200 and the body decodes, and in every
\* other case a failure mapping, which names the status when it is not 200.
C3_SuccessIsStatus200WithJson ==
    \A t \in DOMAIN pc : \A i \in 1..Len(got[t]) :
        LET e == got[t][i]
        IN e.o.k = "resp" =>
              IF e.o.status = 200 /\ e.o.body.k = "json"
              THEN e.r = e.o.body.v
              ELSE /\ IsErrorMapping(e.r)
                   /\ e.r.d["error"].t = "str"
                   /\ e.o.status # 200 =>
                         IsSubstring(ToString(e.o.status), e.r.d["error"].s)

C3_Witness ==
    \E t \in DOMAIN pc : \E i \in 1..Len(got[t]) :
        LET e == got[t][i]
        IN /\ e.o.k = "resp" /\ e.o.status = 201 /\ e.o.body.k = "json"
           /\ e.r = ErrorResult("API request failed with status 201")

\* The failure kind of an outcome.
FailureKind(o) ==
    CASE o.k = "exc" -> "transport"
      [] o.k = "resp" /\ o.status # 200 -> "rejection"
      [] o.k = "resp" /\ o.status = 200 /\ o.body.k # "json" -> "decode"
      [] OTHER -> "none"

\* C4: the result of a failed exchange differs from the result of every
\* exchange that fails in another way (transport failure, remote rejection,
\* decode failure).
C4_FailureKindsDistinct ==
    \A t \in DOMAIN pc : \A i \in 1..Len(got[t]) : \A o \in Outcomes :
        LET e == got[t][i]
        IN /\ FailureKind(e.o) # "none"
           /\ FailureKind(o) \notin {"none", FailureKind(e.o)}
           => make_api_request_recv(o) # e.r

\* An exchange that ended with status 200 and a decodable body.
Succeeded(o) == o.k = "resp" /\ o.status = 200 /\ o.body.k = "json"

\* C5: an invocation hands at most one request to the transport, and
\* xano_add_field_to_schema at most two; every call of make_api_request makes
\* at most one exchange; a second request follows only a successful first
\* exchange and is another request than the first.
C5_NoRetry ==
    \A t \in DOMAIN pc :
        /\ Len(sent[t]) <= (IF call[t].op = "xano_add_field_to_schema" THEN 2 ELSE 1)
        /\ Len(sent[t]) <= Len(got[t]) + 1
        /\ pc[t] \in {"done", "raised"} => Len(sent[t]) <= Len(got[t])
        /\ Len(sent[t]) = 2 =>
              /\ Succeeded(got[t][1].o)
              /\ sent[t][2] # sent[t][1]

C5_Witness ==
    \E t \in DOMAIN pc :
        /\ call[t].op = "xano_add_field_to_schema" /\ pc[t] = "done"
        /\ Len(sent[t]) = 2 /\ Len(got[t]) = 2
        /\ FailedOutcome(got[t][2].o)

\* C6: normalising an identifier that was normalised changes nothing, for
\* the result of every direct call of format_id and for every identifier a
\* tool was called with.
C6_FormatIdIdempotent ==
    \A t \in DOMAIN pc :
        /\ call[t].op = "format_id" /\ pc[t] = "done" =>
              format_id(ret[t]) = ret[t]
        /\ \A f \in DOMAIN call[t].a \cap
                    {"workspace_id", "table_id", "record_id", "index_id", "file_id"} :
              format_id(format_id(call[t].a[f])) = format_id(call[t].a[f])

C6_Witness ==
    \E t \in DOMAIN pc :
        /\ call[t].op = "format_id" /\ pc[t] = "done"
        /\ call[t].a.id_value = Str("\"\"7\"\"")
        /\ ret[t] = Str("7")

\* A string without a quote character at either end.
DeQuoted(v) ==
    /\ v.t = "str"
    /\ v.s # "" => SubSeq(v.s, 1, 1) # Quote /\ SubSeq(v.s, Len(v.s), Len(v.s)) # Quote

\* C7: every identifier interpolated into the path of a dispatched request
\* is not None and carries no quote character at either end.
C7_PathIdentifiersNormalised ==
    \A t \in DOMAIN pc : \A i \in 1..Len(sent[t]) :
        \A j \in 1..Len(sent[t][i].url.path) :
            LET seg == sent[t][i].url.path[j]
            IN IsId(seg) => seg.v # None /\ DeQuoted(seg.v)

\* The operations on live table content, records and files.
LiveDataOps ==
    {"xano_browse_table_content", "xano_search_table_content",
     "xano_get_table_record", "xano_create_table_record",
     "xano_update_table_record", "xano_delete_table_record",
     "xano_search_and_update_records", "xano_search_and_delete_records",
     "xano_bulk_create_records", "xano_bulk_update_records",
     "xano_bulk_delete_records", "xano_truncate_table",
     "xano_list_files", "xano_upload_file", "xano_get_file_details",
     "xano_delete_file", "xano_bulk_delete_files"}

\* C8: every request of an operation on live table content, records or
\* files carries the header X-Data-Source: live.
C8_LiveHeaderOnLiveData ==
    \A t \in DOMAIN pc : \A i \in 1..Len(sent[t]) :
        call[t].op \in LiveDataOps =>
            <<"X-Data-Source", "live">> \in sent[t][i].headers

\* The operations that declare a binary attachment.
AttachmentOps ==
    {"xano_upload_file", "xano_import_workspace", "xano_import_workspace_schema"}

\* C9: a request of a catalog operation carries files exactly when the
\* operation declares a binary attachment; such a request carries exactly one
\* binary part, no JSON body and no JSON Content-Type header.
C9_MultipartIffAttachment ==
    \A t \in DOMAIN pc : \A i \in 1..Len(sent[t]) :
        LET w == sent[t][i]
        IN call[t].op \in CatalogOps =>
              /\ w.files # Absent <=> call[t].op \in AttachmentOps
              /\ w.files # Absent =>
                    /\ w.files.t = "dict"
                    /\ Cardinality(DOMAIN w.files.d) = 1
                    /\ \A part \in DOMAIN w.files.d : w.files.d[part].t = "file"
                    /\ w.json = Absent
                    /\ \A h \in w.headers :
                          ~(h[1] = "Content-Type" /\ h[2] = "application/json")

C9_Witness ==
    \E t \in DOMAIN pc :
        /\ call[t].op = "xano_import_workspace_schema" /\ pc[t] = "await"
        /\ sent[t][1].files = FilePart("file", "/data/logo.png")
        /\ sent[t][1].data # Absent

UpdateTableFields == {"name", "description", "docs", "auth", "tag"}

\* C10: the PUT body of xano_update_table holds exactly the fields that were
\* not left as None, each with the caller's value, falsy or not.
C10_UpdateBodyIsSuppliedFields ==
    \A t \in DOMAIN pc :
        call[t].op = "xano_update_table" /\ sent[t] # <<>> =>
            LET w == sent[t][1]
                a == call[t].a
            IN /\ w.verb = "PUT"
               /\ w.json.t = "dict"
               /\ DOMAIN w.json.d = {f \in UpdateTableFields : a[f] # None}
               /\ \A f \in DOMAIN w.json.d : w.json.d[f] = a[f]

C10_Witness ==
    \E t \in DOMAIN pc :
        /\ call[t].op = "xano_update_table" /\ sent[t] # <<>>
        /\ call[t].a.name = Str("") /\ call[t].a.auth = PyBool(FALSE)
        /\ call[t].a.tag = List(<<>>) /\ call[t].a.description = None
        /\ call[t].a.docs = None
        /\ DOMAIN sent[t][1].json.d = {"name", "auth", "tag"}

\* C11: when the schema read of xano_add_field_to_schema succeeds with an
\* array S, the invocation sends a second request, a PUT to the URL of the
\* read, whose schema is S followed by one descriptor that carries the
\* supplied field name and type.
C11_AddFieldAppendsOneDescriptor ==
    \A t \in DOMAIN pc :
        /\ call[t].op = "xano_add_field_to_schema"
        /\ Len(got[t]) >= 1
        /\ Succeeded(got[t][1].o)
        /\ got[t][1].o.body.v.t = "list"
        => /\ Len(sent[t]) = 2
           /\ sent[t][2].verb = "PUT"
           /\ sent[t][2].url = sent[t][1].url
           /\ LET S == got[t][1].o.body.v.l
                  new == sent[t][2].json.d["schema"].l
              IN /\ Len(new) = Len(S) + 1
                 /\ SubSeq(new, 1, Len(S)) = S
                 /\ new[Len(new)].d["name"] = call[t].a.field_name
                 /\ new[Len(new)].d["type"] = call[t].a.field_type

\* The PUT of task t is answered in this step.
WriteLands(t) ==
    /\ call[t].op = "xano_add_field_to_schema"
    /\ pc[t] = "await" /\ Len(sent[t]) = 2
    /\ pc'[t] # "await"

\* C12: the write of xano_add_field_to_schema stores the array its own read
\* returned plus its own field, whatever was written to the table since
\* that read: a descriptor stored in between is no longer in the schema,
\* and every caller gets a result that is no failure.
C12_LastWriterWins ==
    [][\A t \in DOMAIN pc :
          /\ WriteLands(t) =>
                LET S == got[t][1].o.body.v.l
                IN /\ remote' = Append(S, NewField(call[t].a))
                   /\ \A i \in 1..Len(remote) :
                         (\A j \in 1..Len(S) : S[j] # remote[i])
                         /\ remote[i] # NewField(call[t].a)
                         => \A j \in 1..Len(remote') : remote'[j] # remote[i]
          /\ pc'[t] \in {"done", "raised"} =>
                pc'[t] = "done" /\ ~IsErrorMapping(ret'[t])]_vars

\* Both callers have their result and the field of one of them is not in
\* the stored schema.
C12_Witness ==
    \E t, u \in DOMAIN pc :
        /\ t # u
        /\ pc[t] = "done" /\ pc[u] = "done"
        /\ Len(sent[t]) = 2 /\ Len(sent[u]) = 2
        /\ ~IsErrorMapping(ret[t]) /\ ~IsErrorMapping(ret[u])
        /\ call[t].a.field_name # call[u].a.field_name
        /\ \A j \in 1..Len(remote) : remote[j] # NewField(call[u].a)

\* xano_list_instances returned the static list: the lookup failed or its
\* payload has no instance data (line 125).
FallbackSubstituted(t) ==
    /\ call[t].op = "xano_list_instances"
    /\ pc[t] = "done"
    /\ In("error", got[t][1].r) \/ ~In("instances", got[t][1].r)

\* What xano_list_instances returns for a live payload with these entries.
LiveResult(entries) == xano_list_instances_after(Dict([instances |-> entries])).v

\* C13: a result xano_list_instances built from the static fallback list
\* differs from the result it builds from live data with the same entries.
C13_FallbackFlagged ==
    \A t \in DOMAIN pc :
        FallbackSubstituted(t) => ret[t] # LiveResult(FallbackInstances)

\* The invocation of task t ran past get_token().
Started(t) == pc[t] \in {"await", "done", "raised"}

BulkDeleteOps ==
    {"xano_bulk_delete_records", "xano_bulk_delete_files", "xano_truncate_table"}

\* The selector set of a bulk delete or a truncate, as its body names it.
SelectorBody(op, a) ==
    CASE op = "xano_bulk_delete_records" -> Dict([row_ids |-> a.record_ids])
      [] op = "xano_bulk_delete_files" -> Dict([ids |-> a.file_ids])
      [] OTHER -> Dict([reset |-> a.reset])

\* C14: a bulk delete of records, a bulk delete of files and a truncate each
\* send a DELETE request whose JSON body is the selector set, for every
\* input.
C14_BulkDeleteSendsDeleteWithBody ==
    \A t \in DOMAIN pc :
        call[t].op \in BulkDeleteOps /\ Started(t) =>
            /\ Len(sent[t]) = 1
            /\ sent[t][1].verb = "DELETE"
            /\ sent[t][1].json = SelectorBody(call[t].op, call[t].a)

\* C15: xano_bulk_delete_files sends exactly one request, a DELETE to the
\* workspace's /file/bulk_delete, whose JSON body is {"ids": L} for the list
\* L it was called with.
C15_BulkDeleteFilesRequest ==
    \A t \in DOMAIN pc :
        call[t].op = "xano_bulk_delete_files" /\ Started(t) =>
            /\ Len(sent[t]) = 1
            /\ sent[t][1].verb = "DELETE"
            /\ sent[t][1].url =
                   Url(meta_api(call[t].a.instance_name),
                       WsPath(call[t].a) \o <<Lit("file"), Lit("bulk_delete")>>)
            /\ sent[t][1].json = Dict([ids |-> call[t].a.file_ids])
            /\ sent[t][1].data = Absent /\ sent[t][1].files = Absent

\* C16: xano_search_table_content sends one POST whose body has the keys
\* page, per_page and search with the caller's values (search is the empty
\* list when no conditions were given), and the key sort, with the caller's
\* mapping, exactly when a non-empty sort mapping was given.
C16_SearchBody ==
    \A t \in DOMAIN pc :
        call[t].op = "xano_search_table_content" /\ Started(t) =>
            LET a == call[t].a
                body == sent[t][1].json
                sorted == a.sort \notin {None, EmptyDict}
            IN /\ Len(sent[t]) = 1
               /\ sent[t][1].verb = "POST"
               /\ body.t = "dict"
               /\ DOMAIN body.d =
                     {"page", "per_page", "search"}
                     \cup (IF sorted THEN {"sort"} ELSE {})
               /\ body.d["page"] = a.page
               /\ body.d["per_page"] = a.per_page
               /\ body.d["search"] =
                     (IF a.search_conditions \in {None, List(<<>>)}
                      THEN List(<<>>) ELSE a.search_conditions)
               /\ sorted => body.d["sort"] = a.sort

\* A search with conditions and no sort is on its way.
C16_Witness ==
    \E t \in DOMAIN pc :
        /\ call[t].op = "xano_search_table_content" /\ pc[t] = "await"
        /\ call[t].a.sort = None
        /\ call[t].a.search_conditions \notin {None, List(<<>>)}
        /\ DOMAIN sent[t][1].json.d = {"page", "per_page", "search"}

\* The tools that delete one resource named by the path.
SingleDeleteOps ==
    {"xano_delete_table", "xano_delete_field", "xano_delete_index",
     "xano_delete_table_record", "xano_delete_file"}

\* C17: a GET request, and the request of a tool that deletes one resource,
\* has no JSON payload (and no form data or file part); the tool that
\* deletes one resource sends a DELETE.
C17_NoBodyNoPayload ==
    \A t \in DOMAIN pc : \A i \in 1..Len(sent[t]) :
        LET w == sent[t][i]
        IN /\ call[t].op \in SingleDeleteOps => w.verb = "DELETE"
           /\ w.verb = "GET" \/ call[t].op \in SingleDeleteOps =>
                 /\ w.json = Absent
                 /\ w.data = Absent
                 /\ w.files = Absent

\* A table delete is on its way, and so was a direct GET that was handed a
\* body.
C17_Witness ==
    \E t \in DOMAIN pc :
        /\ Len(sent[t]) = 1
        /\ \/ call[t].op = "xano_delete_table" /\ sent[t][1].verb = "DELETE"
           \/ /\ call[t].op = "make_api_request" /\ sent[t][1].verb = "GET"
              /\ call[t].a.data # None
        /\ sent[t][1].json = Absent

\* C18: the process runs tools only with a credential (without one it ends
\* at startup, before any call), no call of a tool ends the process, and
\* every request of a tool carries that one credential.
C18_CredentialResolvedAtStartup ==
    /\ token = NoToken => \A t \in DOMAIN pc : call[t].op \notin CatalogOps
    /\ \A t \in DOMAIN pc : pc[t] # "exited"
    /\ \A t \in DOMAIN pc : \A i \in 1..Len(sent[t]) :
          call[t].op \in CatalogOps =>
              <<"Authorization", "Bearer " \o token>> \in sent[t][i].headers

\* The outcomes of the exchanges a task has completed, in order.
RECURSIVE ExchangesOf(_)
ExchangesOf(rs) ==
    IF rs = <<>> THEN <<>>
    ELSE IF Head(rs).o = NoExchange THEN ExchangesOf(Tail(rs))
         ELSE <<Head(rs).o>> \o ExchangesOf(Tail(rs))

\* A tool run with no other tool in progress, its exchanges ending with the
\* outcomes os: the requests it sends, where it stands and what it returned.
RECURSIVE RunAlone(_, _, _, _, _)
RunAlone(op, a, d, os, out) ==
    CASE d.n.k = "await" ->
            IF os = <<>>
            THEN [sent |-> Append(out, d.n.w), pc |-> "await", ret |-> Absent]
            ELSE LET stage == Len(out) + 1
                     result == make_api_request_recv(Head(os))
                 IN RunAlone(op, a,
                             Drive(op, token, a, After(op, token, a, stage, result),
                                   stage + 1, <<>>),
                             Tail(os), Append(out, d.n.w))
      [] d.n.k = "return" -> [sent |-> out, pc |-> "done", ret |-> d.n.v]
      [] OTHER -> [sent |-> out, pc |-> "raised", ret |-> d.n.e]

Alone(op, a, os) ==
    RunAlone(op, a, Drive(op, token, a, Prep(op, token, a), 1, <<>>), os, <<>>)

Unreadable(t) ==
    /\ call[t].op \in AttachmentOps
    /\ call[t].a.file_path \notin ReadableFiles

\* The requests a completed invocation of a catalog tool has sent.
RequestsOf(t) ==
    CASE call[t].op = "xano_get_instance_details" -> 0
      [] Unreadable(t) -> 0
      [] call[t].op \in {"xano_truncate_table", "xano_bulk_delete_files"} ->
            IF delete_json THEN 1 ELSE 0
      [] call[t].op = "xano_add_field_to_schema" ->
            IF /\ Iterable(got[t][1].r)
               /\ ~In("error", got[t][1].r)
               /\ got[t][1].r.t = "list"
            THEN 2 ELSE 1
      [] OTHER -> 1

\* C20 as claimed: a completed invocation has sent exactly one request, and
\* xano_add_field_to_schema exactly two; none has sent no request.
C20_ExactlyOneRequest ==
    \A t \in DOMAIN pc :
        call[t].op \in CatalogOps /\ pc[t] \in {"done", "raised"} =>
            Len(sent[t]) = (IF call[t].op = "xano_add_field_to_schema" THEN 2 ELSE 1)

\* C20: a completed invocation of a catalog tool has sent exactly one
\* request, except that xano_get_instance_details sends none, an upload or
\* import whose file cannot be read sends none, a truncate or a bulk delete
\* of files sends none when the transport's delete() rejects the body, and
\* xano_add_field_to_schema sends two when its read returned an array
\* without the member "error" and one otherwise.
C20_RequestsPerInvocation ==
    \A t \in DOMAIN pc :
        call[t].op \in CatalogOps /\ pc[t] \in {"done", "raised"} =>
            Len(sent[t]) = RequestsOf(t)

\* An upload whose file cannot be read has returned without a request.
C20_Witness ==
    \E t \in DOMAIN pc :
        /\ call[t].op = "xano_upload_file" /\ pc[t] = "done"
        /\ call[t].a.file_path \notin ReadableFiles
        /\ Len(sent[t]) = 0

\* C21: every request of a catalog tool, the multipart ones included,
\* carries the Authorization header with the bearer credential and the
\* Accept header that asks for JSON.
C21_StandardHeaders ==
    \A t \in DOMAIN pc : \A i \in 1..Len(sent[t]) :
        call[t].op \in CatalogOps =>
            /\ <<"Authorization", "Bearer " \o token>> \in sent[t][i].headers
            /\ <<"Accept", "application/json">> \in sent[t][i].headers

\* The text of a normalised identifier in a URL.
Nid(v) == PyStr(format_id(v))

\* The text that follows /workspace/{workspace_id} in the URL of a tool:
\* its literal suffix, with the identifiers it names.
SuffixOf(op, a) ==
    LET table == "/table/" \o Nid(a.table_id)
    IN CASE op = "xano_get_workspace_details" -> ""
         [] op = "xano_create_table" -> "/table"
         [] op \in {"xano_get_table_details", "xano_delete_table"} -> table
         [] op = "xano_update_table" -> table \o "/meta"
         [] op \in {"xano_get_table_schema", "xano_update_table_schema",
                    "xano_add_field_to_schema"} -> table \o "/schema"
         [] op = "xano_rename_schema_field" -> table \o "/schema/rename"
         [] op \in {"xano_get_field_schema", "xano_delete_field"} ->
               table \o "/schema/" \o PyStr(a.field_name)
         [] op \in {"xano_list_indexes", "xano_update_all_indexes"} -> table \o "/index"
         [] op = "xano_create_btree_index" -> table \o "/index/btree"
         [] op = "xano_create_unique_index" -> table \o "/index/unique"
         [] op = "xano_create_search_index" -> table \o "/index/search"
         [] op = "xano_create_spatial_index" -> table \o "/index/spatial"
         [] op = "xano_create_vector_index" -> table \o "/index/vector"
         [] op = "xano_delete_index" -> table \o "/index/" \o Nid(a.index_id)
         [] op \in {"xano_browse_table_content", "xano_create_table_record"} ->
               table \o "/content"
         [] op = "xano_search_table_content" -> table \o "/content/search"
         [] op \in {"xano_get_table_record", "xano_update_table_record",
                    "xano_delete_table_record"} ->
               table \o "/content/" \o Nid(a.record_id)
         [] op = "xano_search_and_update_records" -> table \o "/content/search/patch"
         [] op = "xano_search_and_delete_records" -> table \o "/content/search/delete"
         [] op = "xano_bulk_create_records" -> table \o "/content/bulk"
         [] op = "xano_bulk_update_records" -> table \o "/content/bulk/patch"
         [] op = "xano_bulk_delete_records" -> table \o "/content/bulk/delete"
         [] op = "xano_truncate_table" -> table \o "/truncate"
         [] op \in {"xano_list_files", "xano_upload_file"} -> "/file"
         [] op \in {"xano_get_file_details", "xano_delete_file"} ->
               "/file/" \o Nid(a.file_id)
         [] op = "xano_bulk_delete_files" -> "/file/bulk_delete"
         [] op = "xano_browse_request_history" -> "/request_history"
         [] op = "xano_search_request_history" -> "/request_history/search"
         [] op = "xano_export_workspace" -> "/export"
         [] op = "xano_export_workspace_schema" -> "/export-schema"
         [] op = "xano_import_workspace" -> "/import"
         [] OTHER -> "/import-schema"

\* C22: every request of a tool that takes a workspace identifier goes to
\* https://{instance_name}.n7c.xano.io/api:meta/workspace/{normalised
\* workspace_id} followed by the suffix of the tool, whatever was called
\* or answered before.
C22_WorkspaceUrl ==
    \A t \in DOMAIN pc : \A i \in 1..Len(sent[t]) :
        LET a == call[t].a
        IN call[t].op \in CatalogOps /\ "workspace_id" \in DOMAIN a =>
              RenderUrl(sent[t][i].url) =
                  "https://" \o a.instance_name \o ".n7c.xano.io/api:meta/workspace/"
                  \o Nid(a.workspace_id) \o SuffixOf(call[t].op, a)

\* The write of xano_add_field_to_schema is on its way to the schema of a
\* table whose identifiers came in quotes.
C22_Witness ==
    \E t \in DOMAIN pc :
        /\ call[t].op = "xano_add_field_to_schema" /\ Len(sent[t]) = 2
        /\ call[t].a.workspace_id = Str("\"7\"")
        /\ call[t].a.table_id = Str("\"12\"")
        /\ RenderUrl(sent[t][2].url) =
              "https://acme.n7c.xano.io/api:meta/workspace/7/table/12/schema"

\* The tools that read one resource.
SingleResourceOps ==
    {"xano_get_workspace_details", "xano_get_table_details",
     "xano_get_table_record", "xano_get_file_details"}

\* The payload is an object wrapped in an items container.
Wrapped(v) == v.t = "dict" /\ "items" \in DOMAIN v.d

\* C23: for a successful exchange xano_list_tables returns, as its tables,
\* the contents of the payload's items container when the payload is wrapped
\* in one and the payload itself otherwise; it returns a failure of the
\* dispatcher unchanged; a tool that reads one resource returns the result
\* of the dispatcher unchanged.
C23_Reshaping ==
    \A t \in DOMAIN pc :
        /\ call[t].op = "xano_list_tables" /\ pc[t] \in {"done", "raised"} =>
              LET o == got[t][1].o
              IN IF Succeeded(o)
                 THEN /\ pc[t] = "done"
                      /\ ret[t] = Dict([tables |-> IF Wrapped(o.body.v)
                                                   THEN o.body.v.d["items"]
                                                   ELSE o.body.v])
                 ELSE pc[t] = "done" /\ ret[t] = got[t][1].r
        /\ call[t].op \in SingleResourceOps /\ pc[t] \in {"done", "raised"} =>
              pc[t] = "done" /\ ret[t] = got[t][1].r

BaseKeys ==
    {"name", "type", "description", "nullable", "required", "access",
     "sensitive", "style"}

\* C24: the descriptor xano_add_field_to_schema writes has the eight base
\* keys with the caller's values, the key default exactly when the default
\* given is not None, and the key validators exactly when non-empty
\* validators were given and the field type is "text".
C24_DescriptorKeys ==
    \A t \in DOMAIN pc :
        call[t].op = "xano_add_field_to_schema" /\ Len(sent[t]) = 2 =>
            LET a == call[t].a
                schema == sent[t][2].json.d["schema"].l
                field == schema[Len(schema)].d
                with_default == a.default # None
                with_validators ==
                    a.validators \notin {None, EmptyDict} /\ a.field_type = Str("text")
            IN /\ DOMAIN field =
                     BaseKeys \cup (IF with_default THEN {"default"} ELSE {})
                              \cup (IF with_validators THEN {"validators"} ELSE {})
               /\ field["name"] = a.field_name /\ field["type"] = a.field_type
               /\ \A k \in BaseKeys \ {"name", "type"} : field[k] = a[k]
               /\ with_default => field["default"] = a.default
               /\ with_validators => field["validators"] = a.validators

\* A field with the default 0 and validators on a type other than text is
\* being written.
C24_Witness ==
    \E t \in DOMAIN pc :
        /\ call[t].op = "xano_add_field_to_schema" /\ Len(sent[t]) = 2
        /\ call[t].a.default = PyInt(0)
        /\ call[t].a.validators = Dict([max |-> PyInt(5)])
        /\ call[t].a.field_type = Str("decimal")
        /\ LET schema == sent[t][2].json.d["schema"].l
           IN DOMAIN schema[Len(schema)].d = BaseKeys \cup {"default"}

\* The identifier is a string in two or more layers of quotes.
TwoLayers(v) ==
    /\ v.t = "str" /\ Len(v.s) >= 4
    /\ SubSeq(v.s, 1, 2) = Quote \o Quote
    /\ SubSeq(v.s, Len(v.s) - 1, Len(v.s)) = Quote \o Quote

\* C25 as claimed: format_id takes the outer layer of quotes from an
\* identifier in two layers and leaves the inner one; an identifier that is
\* no string becomes its text.
C25_OneLayerStripped ==
    \A t \in DOMAIN pc :
        call[t].op = "format_id" /\ pc[t] = "done" =>
            LET v == call[t].a.id_value
            IN /\ TwoLayers(v) => ret[t] = Str(SubSeq(v.s, 2, Len(v.s) - 1))
               /\ v.t = "int" => ret[t] = Str(ToString(v.n))

\* C25: format_id takes every quote character from both ends of the text
\* of an identifier, however many layers there are, and nothing else; an
\* identifier that is no string becomes its text; None stays None.
C25_AllLayersStripped ==
    \A t \in DOMAIN pc :
        call[t].op = "format_id" /\ pc[t] = "done" =>
            LET v == call[t].a.id_value
            IN IF v = None THEN ret[t] = None
               ELSE /\ DeQuoted(ret[t])
                    /\ \E i, j \in 0..Len(PyStr(v)) :
                          PyStr(v) = Rep(Quote, i) \o ret[t].s \o Rep(Quote, j)
                    /\ v.t = "int" => ret[t] = Str(ToString(v.n))

\* An identifier in two layers of quotes came back without any.
C25_Witness ==
    \E t \in DOMAIN pc :
        /\ call[t].op = "format_id" /\ pc[t] = "done"
        /\ TwoLayers(call[t].a.id_value)
        /\ call[t].a.id_value.s = Rep(Quote, 2) \o "7" \o Rep(Quote, 2)
        /\ ret[t].s = "7"

\* The key under which a tool returns a successful payload.
WrapKey(op) ==
    CASE op = "xano_list_databases" -> "databases"
      [] op = "xano_list_tables" -> "tables"
      [] OTHER -> "schema"

\* C26: when the exchange of xano_list_databases, xano_list_tables or
\* xano_get_table_schema succeeded and the tool returned, it returned the
\* payload wrapped under its key, whatever the payload holds; when the
\* schema read of xano_add_field_to_schema succeeded with an array, the
\* tool went on to its write.
C26_SuccessNeverReportedAsFailure ==
    \A t \in DOMAIN pc :
        /\ /\ call[t].op \in {"xano_list_databases", "xano_list_tables",
                              "xano_get_table_schema"}
           /\ pc[t] = "done"
           /\ Succeeded(got[t][1].o)
           => /\ ret[t].t = "dict"
              /\ DOMAIN ret[t].d = {WrapKey(call[t].op)}
        /\ /\ call[t].op = "xano_add_field_to_schema"
           /\ Len(got[t]) >= 1
           /\ Succeeded(got[t][1].o)
           /\ got[t][1].o.body.v.t = "list"
           => Len(sent[t]) = 2

\* C27: xano_add_field_to_schema sends its PUT only when its schema read
\* has ended with success; when the read ended with a failure the tool
\* returns that failure unchanged and has sent the GET alone.
C27_WriteOnlyAfterSuccessfulRead ==
    \A t \in DOMAIN pc :
        call[t].op = "xano_add_field_to_schema" =>
            /\ \A i \in 1..Len(sent[t]) :
                  sent[t][i].verb = "PUT" =>
                      i = 2 /\ Len(got[t]) >= 1 /\ Succeeded(got[t][1].o)
            /\ Len(got[t]) >= 1 /\ FailedOutcome(got[t][1].o) =>
                  /\ pc[t] = "done"
                  /\ ret[t] = got[t][1].r
                  /\ IsErrorMapping(ret[t])
                  /\ Len(sent[t]) = 1 /\ sent[t][1].verb = "GET"

\* The schema read was rejected and the tool returned the rejection.
C27_Witness ==
    \E t \in DOMAIN pc :
        /\ call[t].op = "xano_add_field_to_schema" /\ pc[t] = "done"
        /\ Len(got[t]) = 1
        /\ got[t][1].o.k = "resp" /\ got[t][1].o.status = 404
        /\ ret[t] = StatusFailureResult(404)
        /\ Len(sent[t]) = 1

\* The exchange succeeded and its payload is an object with an instances
\* entry.
HasInstances(o) ==
    /\ Succeeded(o)
    /\ o.body.v.t = "dict"
    /\ "instances" \in DOMAIN o.body.v.d

\* C28: xano_list_instances always returns, after one exchange, a mapping
\* whose instances are those of the payload when the exchange succeeded
\* with a payload that has an instances entry, and the static list in every
\* other case; it never returns a failure and never raises.
C28_ListInstancesNeverFails ==
    \A t \in DOMAIN pc :
        call[t].op = "xano_list_instances" /\ pc[t] \in {"done", "raised"} =>
            /\ pc[t] = "done"
            /\ Len(sent[t]) = 1
            /\ ret[t] = Dict([instances |->
                              IF HasInstances(got[t][1].o)
                              THEN got[t][1].o.body.v.d["instances"]
                              ELSE FallbackInstances])

\* C29: an upload or import whose local file cannot be read returns a
\* failure without a request; when it sends its request, the one file part
\* carries the name and the whole content of the file that was read.
C29_UnreadableFileNoRequest ==
    \A t \in DOMAIN pc :
        call[t].op \in AttachmentOps /\ Started(t) =>
            IF Unreadable(t)
            THEN /\ pc[t] = "done"
                 /\ Len(sent[t]) = 0
                 /\ IsErrorMapping(ret[t])
            ELSE /\ Len(sent[t]) = 1
                 /\ sent[t][1].files.t = "dict"
                 /\ \E part \in DOMAIN sent[t][1].files.d :
                       /\ DOMAIN sent[t][1].files.d = {part}
                       /\ sent[t][1].files.d[part] =
                             Bytes(Basename(call[t].a.file_path),
                                   FileContent(call[t].a.file_path))

\* An import whose file is missing has returned its failure.
C29_Witness ==
    \E t \in DOMAIN pc :
        /\ call[t].op = "xano_import_workspace" /\ pc[t] = "done"
        /\ call[t].a.file_path = "/missing.bin"
        /\ Len(sent[t]) = 0 /\ Len(got[t]) = 0
        /\ IsErrorMapping(ret[t])

\* The caller gave a value that is not empty.
NonEmpty(v) == v \notin {None, Str("")}

\* The keys among ks the caller gave a non-empty value for.
Given(a, ks) == {k \in ks : NonEmpty(a[k])}

\* C30: the query parameters of xano_list_files and
\* xano_browse_request_history always hold page and per_page with the
\* caller's values; a filter is there exactly when the caller gave a
\* non-empty value for it, order (with sort) exactly when a sort was given,
\* include_output exactly when it is true; xano_browse_table_content sends
\* page and per_page, and no other tool sends query parameters.
C30_QueryParameters ==
    \A t \in DOMAIN pc : \A i \in 1..Len(sent[t]) :
        LET a == call[t].a
            op == call[t].op
            params == sent[t][i].params
            paged == /\ params.t = "dict"
                     /\ params.d["page"] = a.page
                     /\ params.d["per_page"] = a.per_page
        IN op \in CatalogOps =>
            CASE op = "xano_list_files" ->
                    /\ paged
                    /\ DOMAIN params.d =
                          {"page", "per_page"} \cup Given(a, {"search", "access"})
                          \cup (IF NonEmpty(a.sort) THEN {"sort", "order"} ELSE {})
                    /\ NonEmpty(a.sort) => params.d["order"] = a.order
              [] op = "xano_browse_request_history" ->
                    /\ paged
                    /\ DOMAIN params.d =
                          {"page", "per_page"}
                          \cup Given(a, {"branch", "api_id", "query_id"})
                          \cup (IF a.include_output = PyBool(TRUE)
                                THEN {"include_output"} ELSE {})
              [] op = "xano_browse_table_content" ->
                    paged /\ DOMAIN params.d = {"page", "per_page"}
              [] OTHER -> params \in {None, Absent}

\* A listing of files with a search and without a sort is on its way.
C30_Witness ==
    \E t \in DOMAIN pc :
        /\ call[t].op = "xano_list_files" /\ pc[t] = "await"
        /\ call[t].a.sort = Str("") /\ call[t].a.search = Str("v1")
        /\ DOMAIN sent[t][1].params.d \cap {"search", "sort", "order"} = {"search"}

====
